---- MODULE Spec2Model ----
(* Model of src/main.py: the pet photo transformer service.               *)
(*                                                                         *)
(* State: the process environment, the prompt catalog loaded at import,    *)
(* the two module-level adapter handles (supabase, generation_model), the  *)
(* lifecycle phase of the process, and one record per HTTP request to      *)
(* POST /generate-image holding the handler's locals, the calls it issued  *)
(* to the two backends, and its response.                                  *)
(*                                                                         *)
(* A Python optional value is a sequence of length at most one: <<>> is    *)
(* None and <<v>> is the value v.                                          *)
EXTENDS Integers, Sequences, FiniteSets, TLC

---------------------------------------------------------------------------
(* Bounds of the model.                                                    *)

\* number of POST /generate-image requests in flight or finished
MaxReq == 2
\* os.urandom(4) is drawn from 0 .. MaxRand instead of 0 .. 2^32 - 1
MaxRand == 1

Requests == 1 .. MaxReq

---------------------------------------------------------------------------
(* Python values.                                                          *)

None == <<>>
Some(v) == <<v>>

\* Python truthiness of an optional string: None and "" are falsy.
Truthy(v) == v # None /\ v # Some("")

---------------------------------------------------------------------------
(* Environment.                                                            *)

EnvNames == {"GOOGLE_PROJECT_ID", "GOOGLE_LOCATION", "SUPABASE_URL",
             "SUPABASE_SERVICE_KEY", "IMAGEN_MODEL_NAME", "BUCKET"}

\* The value a variable has when it is set (a set variable is never empty).
EnvValue(name) ==
    CASE name = "GOOGLE_PROJECT_ID"    -> "pet-project"
      [] name = "GOOGLE_LOCATION"      -> "us-central1"
      [] name = "SUPABASE_URL"         -> "https://db.supabase.co"
      [] name = "SUPABASE_SERVICE_KEY" -> "service-key"
      [] name = "IMAGEN_MODEL_NAME"    -> "imagegeneration@002"
      [] name = "BUCKET"               -> "pets"

\* os.getenv(name) in an environment where exactly the names of e are set
getenv(e, name) == IF name \in e THEN Some(EnvValue(name)) ELSE None

\* a startup check that leaves the model name out
StartupEnvNoModelName == {"GOOGLE_PROJECT_ID", "GOOGLE_LOCATION", "SUPABASE_URL",
                          "SUPABASE_SERVICE_KEY"}

\* the names whose values are handed to all() in startup_event
StartupEnv == {"GOOGLE_PROJECT_ID", "GOOGLE_LOCATION", "SUPABASE_URL",
               "SUPABASE_SERVICE_KEY", "IMAGEN_MODEL_NAME"}

\* the initialization calls of startup_event, in program order
InitCalls == <<"vertexai.init", "create_client", "from_pretrained">>

\* which initialization call raises in this deployment ("none": all succeed)
Faults == {"none", "vertexai.init", "create_client", "from_pretrained"}

\* position of a call in InitCalls
CallIndex(c) == CHOOSE i \in 1 .. Len(InitCalls) : InitCalls[i] = c

\* TRUE iff call c of the try block completes when call f is the one raising
Completes(c, f) == f = "none" \/ CallIndex(c) < CallIndex(f)

---------------------------------------------------------------------------
(* Prompt catalog (prompts.json).                                          *)

Royal  == [id |-> 1, title |-> "Royal Portrait", promptText |-> "as a renaissance king"]
Astro  == [id |-> 2, title |-> "Astronaut",      promptText |-> "in a space suit"]
Blank  == [id |-> 2, title |-> "Blank",          promptText |-> ""]

\* the catalogs the process may have loaded; ids are unique within a catalog
Catalogs == { <<>>, <<Royal>>, <<Royal, Astro>>, <<Astro, Royal>>, <<Royal, Blank>> }

\* the prompt_id values a client sends
PromptIds == {1, 2, 3}

\* uploaded photos
Photos == {"photo-a"}

\* what the generation backend returns
Renderings == {"render-x"}

\* indexes of the catalog entries with the given id
Matches(catalog, id) == { i \in 1 .. Len(catalog) : catalog[i].id = id }

\* next((p["promptText"] for p in PROMPTS if p["id"] == prompt_id), "default")
resolve_with_default(catalog, id) ==
    IF Matches(catalog, id) = {} THEN Some("make it pretty")
    ELSE Some(catalog[CHOOSE i \in Matches(catalog, id) :
                        \A j \in Matches(catalog, id) : i <= j].promptText)

\* next((p["promptText"] for p in PROMPTS if p["id"] == prompt_id), None)
resolve(catalog, id) ==
    IF Matches(catalog, id) = {} THEN None
    ELSE Some(catalog[CHOOSE i \in Matches(catalog, id) :
                        \A j \in Matches(catalog, id) : i <= j].promptText)

\* a listing that returns the entries whole
get_prompts_whole(catalog) == catalog

\* [{"id": p["id"], "title": p["title"]} for p in PROMPTS]
get_prompts(catalog) ==
    [i \in 1 .. Len(catalog) |-> [id |-> catalog[i].id, title |-> catalog[i].title]]


---------------------------------------------------------------------------
(* Storage key and public URL.                                             *)

HexDigit == <<"0", "1", "2", "3", "4", "5", "6", "7",
              "8", "9", "a", "b", "c", "d", "e", "f">>

\* the k lowest hex digits of n, most significant first: bytes.hex()
RECURSIVE Hex(_, _)
Hex(n, k) == IF k = 0 THEN "" ELSE Hex(n \div 16, k - 1) \o HexDigit[(n % 16) + 1]

\* f"generated_{prompt_id}_{os.urandom(4).hex()}.png", rand the value of the 4 bytes
make_filename(prompt_id, rand) ==
    "generated_" \o ToString(prompt_id) \o "_" \o Hex(rand, 8) \o ".png"

\* supabase.storage.from_(bucket).get_public_url(path)
get_public_url(bucket, path) ==
    EnvValue("SUPABASE_URL") \o "/storage/v1/object/public/" \o bucket \o "/" \o path

---------------------------------------------------------------------------
(* Responses of POST /generate-image.                                      *)

Response(status, detail, image_url) ==
    [status |-> status, detail |-> detail, image_url |-> image_url]

ServiceNotReady ==
    Response(503, "Service not ready. AI or Database client failed to initialize. Check server logs.", None)

PromptNotFound == Response(404, "Prompt not found", None)

\* a generation failure reported as a success without a URL
GenerationSwallowed(e) == Response(200, "", None)

GenerationFailed(e) == Response(500, "Image generation failed: " \o e, None)

\* an upload failure reported with the generation message
UploadFailedAsGeneration(e) == Response(500, "Image generation failed: " \o e, None)

UploadFailed(e) == Response(500, "File upload to Supabase failed: " \o e, None)

\* a success that returns no URL
SuccessWithoutUrl(public_url) == Response(200, "", None)

Success(public_url) == Response(200, "", Some(public_url))

\* str(e) of the exceptions the handler can catch
BackendErrors == {"503 backend unavailable"}
IndexErrorText == "list index out of range"
BucketErrorText == "SUPABASE BUCKET environment variable (BUCKET) is not set."


---------------------------------------------------------------------------
(* State.                                                                  *)

VARIABLES
    env,               \* names of the environment variables that are set
    fault,             \* the initialization call that raises, or "none"
    PROMPTS,           \* the catalog loaded from prompts.json
    phase,             \* "boot" before the startup hook ran, then "serving"
    supabase,          \* module global: None or the storage client
    generation_model,  \* module global: None or the generation model
    listing,           \* None or the body returned by GET /prompts
    req                \* per request: handler position, locals, calls issued,
                       \* the step that raised (if any) and the response

vars == <<env, fault, PROMPTS, phase, supabase, generation_model, listing, req>>

IdleRequest ==
    [pc |-> "idle", prompt_id |-> 0, prompt |-> None, new_image |-> None,
     filename |-> None, bucket |-> None,
     edits |-> <<>>, uploads |-> <<>>, urls |-> <<>>, raised |-> None,
     response |-> None]

Init ==
    /\ env \in SUBSET EnvNames
    /\ fault \in Faults
    /\ PROMPTS \in Catalogs
    /\ phase = "boot"
    /\ supabase = None
    /\ generation_model = None
    /\ listing = None
    /\ req = [r \in Requests |-> IdleRequest]

---------------------------------------------------------------------------
(* Startup hook.                                                           *)

\* a readiness test that looks at the storage client only
ready_storage_only(model, client) == client # None

\* the negation of: not generation_model or not supabase
ready(model, client) == model # None /\ client # None

startup_event ==
    /\ phase = "boot"
    /\ phase' = "serving"
    /\ IF \E n \in StartupEnv : ~Truthy(getenv(env, n))
       THEN UNCHANGED <<supabase, generation_model>>
       ELSE /\ supabase' = IF Completes("create_client", fault)
                           THEN Some("Client") ELSE None
            /\ generation_model' = IF Completes("from_pretrained", fault)
                                   THEN Some("ImageGenerationModel") ELSE None
    /\ UNCHANGED <<env, fault, PROMPTS, listing, req>>

---------------------------------------------------------------------------
(* GET /prompts.                                                           *)

GetPrompts ==
    /\ phase = "serving"
    /\ listing = None
    /\ listing' = Some(get_prompts(PROMPTS))
    /\ UNCHANGED <<env, fault, PROMPTS, phase, supabase, generation_model, req>>

---------------------------------------------------------------------------
(* POST /generate-image.  The handler runs in four steps, one per backend  *)
(* interaction: the checks (lines 80-87), the transformation (90-105),     *)
(* the upload (108-123) and the URL lookup (125-131).                      *)

Finish(rec, response) == [rec EXCEPT !.pc = "done", !.response = Some(response)]

\* rec after the named step raised an exception
Raise(rec, step) == [rec EXCEPT !.raised = Some(step)]

\* lines 80-87: readiness check, then prompt resolution
generate_image(r, prompt_id) ==
    /\ phase = "serving"
    /\ req[r].pc = "idle"
    /\ \A q \in Requests : q < r => req[q].pc # "idle"
    /\ LET rec == [req[r] EXCEPT !.prompt_id = prompt_id]
           prompt == resolve(PROMPTS, prompt_id)
       IN  req' = [req EXCEPT ![r] =
                IF ~ready(generation_model, supabase)
                THEN Finish(rec, ServiceNotReady)
                ELSE IF ~Truthy(prompt)
                THEN Finish([rec EXCEPT !.prompt = prompt], PromptNotFound)
                ELSE [rec EXCEPT !.prompt = prompt, !.pc = "edit"]]
    /\ UNCHANGED <<env, fault, PROMPTS, phase, supabase, generation_model, listing>>

\* lines 90-105: read the upload, call edit_image once, read images[0]
edit_image(r) ==
    /\ req[r].pc = "edit"
    /\ \E photo \in Photos :
         LET call == [base_image |-> photo, prompt |-> req[r].prompt[1],
                      number_of_images |-> 1]
             rec  == [req[r] EXCEPT !.edits = Append(@, call)]
         IN  \/ \E image \in Renderings :
                  req' = [req EXCEPT ![r] =
                            [rec EXCEPT !.new_image = Some(image), !.pc = "upload"]]
             \/ \E e \in BackendErrors :
                  req' = [req EXCEPT ![r] =
                            Finish(Raise(rec, "edit_image"), GenerationFailed(e))]
             \/ req' = [req EXCEPT ![r] =
                          Finish(Raise(rec, "images[0]"), GenerationFailed(IndexErrorText))]
    /\ UNCHANGED <<env, fault, PROMPTS, phase, supabase, generation_model, listing>>

\* lines 108-123: synthesize the key, look up BUCKET, upload
upload(r) ==
    /\ req[r].pc = "upload"
    /\ \E rand \in 0 .. MaxRand :
         LET filename == make_filename(req[r].prompt_id, rand)
             bucket   == getenv(env, "BUCKET")
             rec      == [req[r] EXCEPT !.filename = Some(filename), !.bucket = bucket]
         IN  IF ~Truthy(bucket)
             THEN req' = [req EXCEPT ![r] =
                            Finish(Raise(rec, "BUCKET"), UploadFailed(BucketErrorText))]
             ELSE LET call == [bucket |-> bucket[1], path |-> filename,
                               file |-> req[r].new_image[1],
                               content_type |-> "image/png"]
                      sent == [rec EXCEPT !.uploads = Append(@, call)]
                  IN  \/ req' = [req EXCEPT ![r] = [sent EXCEPT !.pc = "url"]]
                      \/ \E e \in BackendErrors :
                           req' = [req EXCEPT ![r] =
                                     Finish(Raise(sent, "upload"), UploadFailed(e))]
    /\ UNCHANGED <<env, fault, PROMPTS, phase, supabase, generation_model, listing>>

\* lines 125-131: look up the public URL and return it
public_url(r) ==
    /\ req[r].pc = "url"
    /\ LET bucket   == req[r].bucket[1]
           filename == req[r].filename[1]
           call     == [bucket |-> bucket, path |-> filename]
           rec      == [req[r] EXCEPT !.urls = Append(@, call)]
       IN  \/ req' = [req EXCEPT ![r] =
                        Finish(rec, Success(get_public_url(bucket, filename)))]
           \/ \E e \in BackendErrors :
                req' = [req EXCEPT ![r] =
                          Finish(Raise(rec, "get_public_url"), UploadFailed(e))]
    /\ UNCHANGED <<env, fault, PROMPTS, phase, supabase, generation_model, listing>>

---------------------------------------------------------------------------

Next ==
    \/ startup_event
    \/ GetPrompts
    \/ \E r \in Requests, prompt_id \in PromptIds : generate_image(r, prompt_id)
    \/ \E r \in Requests : edit_image(r)
    \/ \E r \in Requests : upload(r)
    \/ \E r \in Requests : public_url(r)

Spec == Init /\ [][Next]_vars

---------------------------------------------------------------------------
(* Vocabulary of the properties.                                           *)

Received(r) == req[r].pc # "idle"
Done(r) == req[r].pc = "done"
Status(r) == req[r].response[1].status
Detail(r) == req[r].response[1].detail
ImageUrl(r) == req[r].response[1].image_url

\* no call to either backend was issued for request r
NoAdapterCall(r) ==
    req[r].edits = <<>> /\ req[r].uploads = <<>> /\ req[r].urls = <<>>

\* no entry of the loaded catalog has this id
Absent(prompt_id) == \A i \in 1 .. Len(PROMPTS) : PROMPTS[i].id # prompt_id

\* both module globals are set
Initialized == generation_model # None /\ supabase # None

GenerationMessages ==
    { "Image generation failed: " \o e : e \in BackendErrors \cup {IndexErrorText} }

UploadMessages ==
    { "File upload to Supabase failed: " \o e : e \in BackendErrors \cup {BucketErrorText} }

---------------------------------------------------------------------------
(* C1 as stated: every request whose prompt_id is absent from the catalog  *)
(* is answered 404 and issues no call to either backend.                   *)
C1_AbsentIs404 ==
    \A r \in Requests :
        Received(r) /\ Absent(req[r].prompt_id)
            => Done(r) /\ Status(r) = 404 /\ NoAdapterCall(r)

(* C1 amended: a request whose prompt_id is absent from the catalog never  *)
(* issues a call to either backend; it is answered 404 when both adapters  *)
(* are initialized and 503 when they are not.                              *)
C1_AbsentNoAdapterCall ==
    \A r \in Requests :
        Received(r) /\ Absent(req[r].prompt_id)
            => /\ Done(r)
               /\ NoAdapterCall(r)
               /\ Status(r) = IF Initialized THEN 404 ELSE 503

C1_Witness ==
    \E r \in Requests :
        Done(r) /\ Absent(req[r].prompt_id) /\ Initialized /\ Status(r) = 404

(* C2: while at least one adapter handle is unset after startup, every     *)
(* request is answered 503 in its first step and issues no backend call.   *)
C2_UninitializedIs503 ==
    \A r \in Requests :
        Received(r) /\ (generation_model = None \/ supabase = None)
            => /\ Done(r)
               /\ req[r].response = Some(ServiceNotReady)
               /\ Status(r) = 503
               /\ req[r].raised = None
               /\ NoAdapterCall(r)

\* initialization raised after the storage client was created
C2_Witness ==
    \E r \in Requests :
        Done(r) /\ supabase # None /\ generation_model = None /\ Status(r) = 503

(* C3: a request answered 200 issued exactly one transformation call, one  *)
(* upload of the transformed bytes and one URL lookup, and its image_url   *)
(* is the storage URL of the bucket and key passed to that upload; an      *)
(* upload is only ever issued after the transformation succeeded.          *)
C3_SuccessOneCallEach ==
    \A r \in Requests :
        /\ req[r].uploads # <<>>
              => /\ Len(req[r].edits) = 1
                 /\ req[r].new_image # None
                 /\ req[r].uploads[1].file = req[r].new_image[1]
        /\ Done(r) /\ Status(r) = 200
              => /\ Len(req[r].edits) = 1
                 /\ Len(req[r].uploads) = 1
                 /\ Len(req[r].urls) = 1
                 /\ req[r].uploads[1].path = req[r].filename[1]
                 /\ \E n \in 0 .. MaxRand :
                      req[r].filename[1] = make_filename(req[r].prompt_id, n)
                 /\ req[r].urls[1].bucket = req[r].uploads[1].bucket
                 /\ req[r].urls[1].path = req[r].uploads[1].path
                 /\ ImageUrl(r) = Some(get_public_url(req[r].uploads[1].bucket,
                                                      req[r].uploads[1].path))

C3_Witness ==
    \E r \in Requests : Done(r) /\ Status(r) = 200 /\ ImageUrl(r) # None

(* C4: when the transformation step raises, the request made exactly one   *)
(* transformation call and no storage call, and is answered 500 with the   *)
(* generation message.                                                     *)
C4_GenerationFailure ==
    \A r \in Requests :
        req[r].raised \in {Some("edit_image"), Some("images[0]")}
            => /\ Done(r)
               /\ Len(req[r].edits) = 1
               /\ req[r].uploads = <<>>
               /\ req[r].urls = <<>>
               /\ Status(r) = 500
               /\ Detail(r) \in GenerationMessages
               /\ ImageUrl(r) = None

C4_Witness ==
    \E r \in Requests : Done(r) /\ req[r].raised = Some("images[0]")

(* C5: when the upload or the URL lookup raises, the request is answered   *)
(* 500 with the upload message and no image_url, having made exactly one   *)
(* transformation call, one upload and at most one URL lookup.             *)
C5_UploadFailure ==
    \A r \in Requests :
        req[r].raised \in {Some("upload"), Some("get_public_url")}
            => /\ Done(r)
               /\ Status(r) = 500
               /\ Detail(r) \in UploadMessages
               /\ Detail(r) \notin GenerationMessages
               /\ ImageUrl(r) = None
               /\ Len(req[r].edits) = 1
               /\ Len(req[r].uploads) = 1
               /\ Len(req[r].urls) = IF req[r].raised = Some("upload") THEN 0 ELSE 1

C5_Witness ==
    \E r \in Requests : Done(r) /\ req[r].raised = Some("get_public_url")

(* C6 as stated: a request that finds BUCKET unset is answered 503, not    *)
(* with the 500 upload failure.                                            *)
C6_MissingBucketIs503 ==
    \A r \in Requests :
        Done(r) /\ req[r].raised = Some("BUCKET")
            => Status(r) = 503 /\ Detail(r) \notin UploadMessages

(* C7 as stated: with IMAGEN_MODEL_NAME unset, the other variables set and *)
(* no initialization call raising, startup sets both handles and no        *)
(* request is answered 503.                                                *)
C7_ModelNameOptional ==
    /\ phase = "serving"
    /\ "IMAGEN_MODEL_NAME" \notin env
    /\ EnvNames \ {"IMAGEN_MODEL_NAME"} \subseteq env
    /\ fault = "none"
    => /\ Initialized
       /\ \A r \in Requests : Done(r) => Status(r) # 503

(* C7 amended: IMAGEN_MODEL_NAME is required; when it is unset, startup    *)
(* leaves both handles unset and every request is answered 503.            *)
C7_ModelNameRequired ==
    phase = "serving" /\ "IMAGEN_MODEL_NAME" \notin env
        => /\ generation_model = None
           /\ supabase = None
           /\ \A r \in Requests : Received(r) => Done(r) /\ Status(r) = 503

C7_Witness ==
    /\ phase = "serving"
    /\ env = EnvNames \ {"IMAGEN_MODEL_NAME"}
    /\ fault = "none"
    /\ \E r \in Requests : Done(r) /\ Status(r) = 503

(* C8: the body of GET /prompts has one record per catalog entry, in       *)
(* catalog order, each with exactly the fields id and title of its entry,  *)
(* whether or not the adapters are initialized.                            *)
C8_PromptsListing ==
    listing # None
        => /\ Len(listing[1]) = Len(PROMPTS)
           /\ \A i \in 1 .. Len(PROMPTS) :
                /\ DOMAIN listing[1][i] = {"id", "title"}
                /\ listing[1][i].id = PROMPTS[i].id
                /\ listing[1][i].title = PROMPTS[i].title

C8_Witness ==
    listing # None /\ Len(PROMPTS) = 2 /\ PROMPTS[1].id > PROMPTS[2].id /\ ~Initialized

(* C9 as stated: no two uploads, of the same or of different requests, are *)
(* issued under the same storage key.                                      *)
C9_FilenameNeverReused ==
    \A r1, r2 \in Requests :
        \A i \in 1 .. Len(req[r1].uploads), j \in 1 .. Len(req[r2].uploads) :
            (r1 # r2 \/ i # j) => req[r1].uploads[i].path # req[r2].uploads[j].path

(* C10 as stated: with initialized adapters, a request whose prompt_id is  *)
(* the id of a catalog entry is never answered 404, and every prompt it    *)
(* passes to the transformation is that entry's promptText.                *)
C10_NotFoundOnlyWhenAbsent ==
    \A r \in Requests :
        Received(r) /\ Initialized /\ ~Absent(req[r].prompt_id)
            => /\ Done(r) => Status(r) # 404
               /\ \A k \in 1 .. Len(req[r].edits) :
                    \E i \in 1 .. Len(PROMPTS) :
                        /\ PROMPTS[i].id = req[r].prompt_id
                        /\ req[r].edits[k].prompt = PROMPTS[i].promptText

====
